---- MODULE Spec2Model ----
(***************************************************************************)
(* String Analyzer API (main.py): the in-memory record store, the five     *)
(* request handlers, the filter engine and the natural-language phrase     *)
(* interpreter.                                                            *)
(*                                                                         *)
(* A Python str is a sequence of one-character strings.  A Python dict is  *)
(* either a function whose domain is the set of keys present (the filters  *)
(* dict) or, where insertion order is observable (string_store), a         *)
(* sequence of [key, data] entries in insertion order.  An Optional        *)
(* parameter that is None is a key absent from the parameter function.     *)
(***************************************************************************)
EXTENDS Integers, Sequences, FiniteSets, TLC

VARIABLES
    string_store,   \* the module-level dict, as entries in insertion order
    clock,          \* what datetime.utcnow() returns next
    resp,           \* the response of the request handled last (Idle once delivered)
    live,           \* history: value -> the record its last successful create returned
    inflight,       \* the requests being served concurrently, per client
    call            \* the input and result of a pure function under test

vars == <<string_store, clock, resp, live, inflight, call>>

(***************************************************************************)
(* Bounds and input sets                                                   *)
(***************************************************************************)
MaxStore == 2       \* records the store may hold
MaxClock == 3       \* readings of the clock, hence successful creates
MaxBound == 1       \* largest integer parameter of a structured query
MaxParam == 2       \* largest integer in a filter handed to apply_filters
MaxRecs == 2        \* records handed to apply_filters
MaxFragments == 2   \* fragments a phrase is made of

\* The strings the clients create, look up and delete.
Values == { <<>>, <<"A","a">>, <<"a","b">>, <<"a"," ","b">> }

\* The strings of the records handed to apply_filters.
FilterValues == Values \cup { <<"b"," ","b">> }

(***************************************************************************)
(* Characters and strings                                                  *)
(***************************************************************************)
UpperLetters == <<"A","B","C","D","E","F","G","H","I","J","K","L","M",
                  "N","O","P","Q","R","S","T","U","V","W","X","Y","Z">>
LowerLetters == <<"a","b","c","d","e","f","g","h","i","j","k","l","m",
                  "n","o","p","q","r","s","t","u","v","w","x","y","z">>
DigitChars == <<"0","1","2","3","4","5","6","7","8","9">>
Whitespace == {" ", "\t", "\n", "\r"}

Range(s) == { s[i] : i \in 1..Len(s) }

\* str.lower() on one character, then on a str
LowerChar(c) ==
    IF c \in Range(UpperLetters)
      THEN LowerLetters[CHOOSE k \in 1..Len(UpperLetters) : UpperLetters[k] = c]
      ELSE c

lower(s) == [i \in 1..Len(s) |-> LowerChar(s[i])]

\* s[::-1]
reversed(s) == [i \in 1..Len(s) |-> s[Len(s) + 1 - i]]

\* True iff lit occurs in s starting at position p
MatchAt(s, p, lit) ==
    /\ p >= 1
    /\ p + Len(lit) - 1 <= Len(s)
    /\ SubSeq(s, p, p + Len(lit) - 1) = lit

\* Python's  needle in haystack  on two str
Contains(s, lit) == \E p \in 1..(Len(s) + 1) : MatchAt(s, p, lit)

\* int() of a run of decimal digits
DigitValue(c) == (CHOOSE k \in 1..Len(DigitChars) : DigitChars[k] = c) - 1

RECURSIVE int(_)
int(ds) ==
    IF ds = <<>> THEN 0
    ELSE 10 * int(SubSeq(ds, 1, Len(ds) - 1)) + DigitValue(ds[Len(ds)])

\* the decimal text of a natural number
RECURSIVE Decimal(_)
Decimal(n) ==
    IF n < 10 THEN <<DigitChars[n + 1]>>
    ELSE Append(Decimal(n \div 10), DigitChars[(n % 10) + 1])

Min(S) == CHOOSE x \in S : \A y \in S : x <= y

(***************************************************************************)
(* Dicts                                                                   *)
(***************************************************************************)
EmptyDict == [k \in {} |-> TRUE]

\* d[k] = v on a dict held as a function
Put(d, k, v) == (k :> v) @@ d

\* the dict of one optional entry: <<>> is None, <<x>> is x
Field(k, o) == IF o = <<>> THEN EmptyDict ELSE (k :> o[1])

\* k in d, d[k], d[k] = v, del d[k] and list(d.values()) on a dict held as
\* entries in insertion order
HasKey(d, k) == \E i \in 1..Len(d) : d[i].key = k

Lookup(d, k) == d[CHOOSE i \in 1..Len(d) : d[i].key = k].data

SetItem(d, k, v) ==
    IF HasKey(d, k)
      THEN [i \in 1..Len(d) |-> IF d[i].key = k THEN [key |-> k, data |-> v] ELSE d[i]]
      ELSE Append(d, [key |-> k, data |-> v])

\* a variant of del d[k] that drops the entry inserted last (d.popitem())
DelLast(d, k) == SubSeq(d, 1, Len(d) - 1)

DelItem(d, k) == SelectSeq(d, LAMBDA e : e.key # k)

DictValues(d) == [i \in 1..Len(d) |-> d[i].data]

(***************************************************************************)
(* analyze_string                                                          *)
(***************************************************************************)
\* hashlib.sha256(value.encode()).hexdigest(): SHA-256 is taken to be free of
\* collisions, so the digest of a string is a token that names the string.
sha256_hexdigest(value) == <<"sha256", value>>

\* len(value.split()): the maximal runs of non-whitespace characters
word_count(value) ==
    Cardinality({ i \in 1..Len(value) :
                    /\ value[i] \notin Whitespace
                    /\ (i = 1 \/ value[i - 1] \in Whitespace) })

\* dict(Counter(value))
character_frequency_map(value) ==
    [c \in Range(value) |-> Cardinality({ i \in 1..Len(value) : value[i] = c })]

\* a variant that hashes the normalized string instead of the raw one
analyze_string_normalized(value) ==
    [ length |-> Len(value),
      is_palindrome |-> lower(value) = reversed(lower(value)),
      unique_characters |-> Cardinality(Range(value)),
      word_count |-> word_count(value),
      sha256_hash |-> sha256_hexdigest(lower(value)),
      character_frequency_map |-> character_frequency_map(value) ]

analyze_string(value) ==
    [ length |-> Len(value),
      is_palindrome |-> lower(value) = reversed(lower(value)),
      unique_characters |-> Cardinality(Range(value)),
      word_count |-> word_count(value),
      sha256_hash |-> sha256_hexdigest(value),
      character_frequency_map |-> character_frequency_map(value) ]

(***************************************************************************)
(* apply_filters                                                           *)
(***************************************************************************)
\* filters.get(k) is not None
Present(filters, k) == k \in DOMAIN filters

\* bool(filters.get("contains_character")): an empty str is falsy
Truthy(filters, k) == k \in DOMAIN filters /\ filters[k] # <<>>

\* a variant of line 97 with > for >=
MinLengthStrict(s, n) == s.properties.length > n

\* line 97
MinLengthOk(s, n) == s.properties.length >= n

\* lines 91-93
ByPalindrome(filtered, filters) ==
    IF Present(filters, "is_palindrome")
      THEN SelectSeq(filtered, LAMBDA s :
               s.properties.is_palindrome = filters["is_palindrome"])
      ELSE filtered

\* lines 95-97
ByMinLength(filtered, filters) ==
    IF Present(filters, "min_length")
      THEN SelectSeq(filtered, LAMBDA s : MinLengthOk(s, filters["min_length"]))
      ELSE filtered

\* lines 99-101
ByMaxLength(filtered, filters) ==
    IF Present(filters, "max_length")
      THEN SelectSeq(filtered, LAMBDA s : s.properties.length <= filters["max_length"])
      ELSE filtered

\* lines 103-105
ByWordCount(filtered, filters) ==
    IF Present(filters, "word_count")
      THEN SelectSeq(filtered, LAMBDA s :
               s.properties.word_count = filters["word_count"])
      ELSE filtered

\* lines 107-110
ByCharacter(filtered, filters) ==
    IF Truthy(filters, "contains_character")
      THEN SelectSeq(filtered, LAMBDA s :
               Contains(s.value, filters["contains_character"]))
      ELSE filtered

apply_filters(strings, filters) ==
    ByCharacter(
      ByWordCount(
        ByMaxLength(
          ByMinLength(
            ByPalindrome(strings, filters),
            filters),
          filters),
        filters),
      filters)

(***************************************************************************)
(* parse_natural_language_query                                            *)
(***************************************************************************)
\* the literals of the rules
PALINDROM == <<"p","a","l","i","n","d","r","o","m">>
SINGLE_WORD == <<"s","i","n","g","l","e"," ","w","o","r","d">>
ONE_WORD == <<"o","n","e"," ","w","o","r","d">>
TWO_WORD == <<"t","w","o"," ","w","o","r","d">>
THREE_WORD == <<"t","h","r","e","e"," ","w","o","r","d">>
LONGER_THAN == <<"l","o","n","g","e","r"," ","t","h","a","n"," ">>
SHORTER_THAN == <<"s","h","o","r","t","e","r"," ","t","h","a","n"," ">>
AT_LEAST == <<"a","t"," ","l","e","a","s","t"," ">>
AT_MOST == <<"a","t"," ","m","o","s","t"," ">>
EXACTLY == <<"e","x","a","c","t","l","y"," ">>
CHARACTER == <<" ","c","h","a","r","a","c","t","e","r">>
CONTAIN == <<"c","o","n","t","a","i","n">>
FIRST_VOWEL == <<"f","i","r","s","t"," ","v","o","w","e","l">>
CONFLICTING == <<"c","o","n","f","l","i","c","t","i","n","g">>

\* the messages of the two ValueError the parser raises
ConflictMessage ==
    <<"C","o","n","f","l","i","c","t","i","n","g"," ","f","i","l","t","e","r","s",":"," ","m","i","n","_","l","e","n","g","t","h"," ","c","a","n","n","o","t"," ","b","e"," ","g","r","e","a","t","e","r"," ","t","h","a","n"," ","m","a","x","_","l","e","n","g","t","h">>
NoMatchMessage ==
    <<"U","n","a","b","l","e"," ","t","o"," ","p","a","r","s","e"," ","n","a","t","u","r","a","l"," ","l","a","n","g","u","a","g","e"," ","q","u","e","r","y">>

\* the alternatives of the groups of the containment pattern, in the order
\* the regular expression tries them; <<>> is the group left out
S_OR_ING == << <<"s">>, <<"i","n","g">>, <<>> >>
SPACE == << <<" ">> >>
THE == << <<"t","h","e"," ">>, <<>> >>
LETTER_OR_CHARACTER == << <<"l","e","t","t","e","r"," ">>, <<"c","h","a","r","a","c","t","e","r"," ">>, <<>> >>
QUOTE == << <<"'">>, <<"\"">>, <<>> >>

\* the end of the longest run of digits of q that starts at p: \d+ is greedy
DigitsEnd(q, p) ==
    CHOOSE j \in p..(Len(q) + 1) :
        /\ j = Len(q) + 1 \/ q[j] \notin Range(DigitChars)
        /\ \A k \in p..(j - 1) : q[k] \in Range(DigitChars)

\* prefix(\d+)suffix matches q from position i.  A shorter run of digits is
\* followed by a digit, which starts no suffix, so only the longest run can
\* match.
NumberAt(q, i, prefix, suffix) ==
    /\ MatchAt(q, i, prefix)
    /\ DigitsEnd(q, i + Len(prefix)) > i + Len(prefix)
    /\ MatchAt(q, DigitsEnd(q, i + Len(prefix)), suffix)

\* int(group(1)) of the match from position i
NumberFrom(q, b) == int(SubSeq(q, b, DigitsEnd(q, b) - 1))

\* the match object: <<>> for None, else <<int(group(1))>> of the leftmost of
\* the matches, which start at the positions starts
NumberOf(q, prefix, starts) ==
    IF starts = {} THEN <<>> ELSE << NumberFrom(q, Min(starts) + Len(prefix)) >>

\* re.search(prefix(\d+)suffix, q)
SearchNumber(q, prefix, suffix) ==
    NumberOf(q, prefix, { i \in 1..Len(q) : NumberAt(q, i, prefix, suffix) })

\* one group of the containment pattern: from each position reached so far,
\* in backtracking order, the positions after each alternative that matches
RECURSIVE AfterOne(_, _, _)
AfterOne(q, p, alts) ==
    IF alts = <<>> THEN <<>>
    ELSE (IF MatchAt(q, p, Head(alts)) THEN <<p + Len(Head(alts))>> ELSE <<>>)
         \o AfterOne(q, p, Tail(alts))

RECURSIVE After(_, _, _)
After(q, ps, alts) ==
    IF ps = <<>> THEN <<>>
    ELSE AfterOne(q, Head(ps), alts) \o After(q, Tail(ps), alts)

\* the positions of q where ([a-z]) can stand after
\* contain(?:s|ing)? (?:the )?(?:letter |character )?['\"]?  matched from i,
\* in the order backtracking reaches them
LetterPositions(q, i) ==
    LET p0 == IF MatchAt(q, i, CONTAIN) THEN <<i + Len(CONTAIN)>> ELSE <<>>
        p1 == After(q, p0, S_OR_ING)
        p2 == After(q, p1, SPACE)
        p3 == After(q, p2, THE)
        p4 == After(q, p3, LETTER_OR_CHARACTER)
        p5 == After(q, p4, QUOTE)
    IN  SelectSeq(p5, LAMBDA p : p <= Len(q) /\ q[p] \in Range(LowerLetters))

\* the match object: <<>> for None, else <<group(1)>> of the leftmost match
LetterOf(q, starts) ==
    IF starts = {} THEN <<>> ELSE << q[Head(LetterPositions(q, Min(starts)))] >>

\* re.search of the containment pattern
SearchContains(q) == LetterOf(q, { i \in 1..Len(q) : LetterPositions(q, i) # <<>> })

\* a variant of lines 174-175 with >= for >
ConflictingLoose(filters) ==
    /\ "min_length" \in DOMAIN filters
    /\ "max_length" \in DOMAIN filters
    /\ filters["min_length"] >= filters["max_length"]

\* lines 174-175
Conflicting(filters) ==
    /\ "min_length" \in DOMAIN filters
    /\ "max_length" \in DOMAIN filters
    /\ filters["min_length"] > filters["max_length"]

\* filters[k] = group + d when the rule matched
PutIf(f, k, match, d) == IF match = <<>> THEN f ELSE Put(f, k, match[1] + d)

\* filters["contains_character"] = c when the rule matched
PutChar(f, match) ==
    IF match = <<>> THEN f ELSE Put(f, "contains_character", <<match[1]>>)

\* lines 158-162: "exactly" writes both bounds
PutBoth(f, match) ==
    PutIf(PutIf(f, "min_length", match, 0), "max_length", match, 0)

\* a variant of lines 141-162 with "exactly" tried first instead of last
LengthFiltersExactlyFirst(q, f) ==
    PutIf(PutIf(PutIf(PutIf(PutBoth(f, SearchNumber(q, EXACTLY, CHARACTER)),
        "min_length", SearchNumber(q, LONGER_THAN, <<>>), 1),
        "max_length", SearchNumber(q, SHORTER_THAN, <<>>), -1),
        "min_length", SearchNumber(q, AT_LEAST, CHARACTER), 0),
        "max_length", SearchNumber(q, AT_MOST, CHARACTER), 0)

\* lines 141-162: the five length rules, each written into the dict in turn
LengthFilters(q, f) ==
    PutBoth(PutIf(PutIf(PutIf(PutIf(f,
        "min_length", SearchNumber(q, LONGER_THAN, <<>>), 1),
        "max_length", SearchNumber(q, SHORTER_THAN, <<>>), -1),
        "min_length", SearchNumber(q, AT_LEAST, CHARACTER), 0),
        "max_length", SearchNumber(q, AT_MOST, CHARACTER), 0),
        SearchNumber(q, EXACTLY, CHARACTER))

\* lines 129-131
PalindromeMatch(q) == IF Contains(q, PALINDROM) THEN <<TRUE>> ELSE <<>>

\* lines 133-139: the first of the word-count phrases that occurs
WordCountMatch(q) ==
    IF Contains(q, SINGLE_WORD) \/ Contains(q, ONE_WORD) THEN <<1>>
    ELSE IF Contains(q, TWO_WORD) THEN <<2>>
    ELSE IF Contains(q, THREE_WORD) THEN <<3>>
    ELSE <<>>

\* lines 169-171
FirstVowelMatch(q) == IF Contains(q, FIRST_VOWEL) THEN <<"a">> ELSE <<>>

\* lines 129-171: the dict the rules leave
Rules(q) ==
    PutChar(PutChar(LengthFilters(q,
        PutIf(Field("is_palindrome", PalindromeMatch(q)),
              "word_count", WordCountMatch(q), 0)),
        SearchContains(q)),
        FirstVowelMatch(q))

\* lines 173-181: [ok |-> TRUE, filters |-> the dict returned] or
\* [ok |-> FALSE, message |-> the text of the ValueError raised]
Checked(filters) ==
    IF Conflicting(filters)
      THEN [ok |-> FALSE, filters |-> EmptyDict, message |-> ConflictMessage]
    ELSE IF DOMAIN filters = {}
      THEN [ok |-> FALSE, filters |-> EmptyDict, message |-> NoMatchMessage]
    ELSE [ok |-> TRUE, filters |-> filters, message |-> <<>>]

parse_natural_language_query(query) == Checked(Rules(lower(query)))

(***************************************************************************)
(* The request handlers.  Each is a function of the store, the clock and   *)
(* the request, giving the store and the clock it leaves and its response. *)
(* A response is [op, arg, status, error, data, filters, engine]: data is  *)
(* the records of the body, filters the specification reported to the      *)
(* caller, engine the dicts the handler handed to apply_filters.           *)
(***************************************************************************)
HTTP_200_OK == 200
HTTP_201_CREATED == 201
HTTP_204_NO_CONTENT == 204
HTTP_400_BAD_REQUEST == 400
HTTP_404_NOT_FOUND == 404
HTTP_409_CONFLICT == 409
HTTP_422_UNPROCESSABLE_ENTITY == 422

Response(op, arg, status, error, data, filters, engine) ==
    [ op |-> op, arg |-> arg, status |-> status, error |-> error,
      data |-> data, filters |-> filters, engine |-> engine ]

Failure(op, arg, status, error) ==
    Response(op, arg, status, error, <<>>, EmptyDict, <<>>)

Idle == Failure("idle", <<>>, 0, "none")

Handled(store, now, response) == [store |-> store, clock |-> now, resp |-> response]

\* a variant of line 198 that never finds the key
AlreadyStoredNever(store, string_id) == FALSE

\* line 198: string_id in string_store
AlreadyStored(store, string_id) == HasKey(store, string_id)

\* lines 208-213
StringData(string_id, value, properties, created_at) ==
    [ id |-> string_id, value |-> value, properties |-> properties,
      created_at |-> created_at ]

\* POST /strings
create_string(store, now, value) ==
    LET properties == analyze_string(value)
        string_id == properties.sha256_hash
    IN  IF AlreadyStored(store, string_id)
          THEN Handled(store, now,
                       Failure("create", value, HTTP_409_CONFLICT, "DuplicateError"))
          ELSE LET created_at == now
                   string_data == StringData(string_id, value, properties, created_at)
               IN  Handled(SetItem(store, string_id, string_data), now + 1,
                           Response("create", value, HTTP_201_CREATED, "none",
                                    <<string_data>>, EmptyDict, <<>>))

\* GET /strings/{string_value}
get_string(store, now, string_value) ==
    LET string_id == sha256_hexdigest(string_value)
    IN  IF ~HasKey(store, string_id)
          THEN Handled(store, now,
                       Failure("get", string_value, HTTP_404_NOT_FOUND, "NotFoundError"))
          ELSE Handled(store, now,
                       Response("get", string_value, HTTP_200_OK, "none",
                                <<Lookup(store, string_id)>>, EmptyDict, <<>>))

\* a variant of delete_string that answers 204 and leaves the entry
delete_string_keep(store, now, string_value) ==
    LET string_id == sha256_hexdigest(string_value)
    IN  IF ~HasKey(store, string_id)
          THEN Handled(store, now,
                       Failure("delete", string_value, HTTP_404_NOT_FOUND, "NotFoundError"))
          ELSE Handled(store, now,
                       Response("delete", string_value, HTTP_204_NO_CONTENT, "none",
                                <<>>, EmptyDict, <<>>))

\* DELETE /strings/{string_value}
delete_string(store, now, string_value) ==
    LET string_id == sha256_hexdigest(string_value)
    IN  IF ~HasKey(store, string_id)
          THEN Handled(store, now,
                       Failure("delete", string_value, HTTP_404_NOT_FOUND, "NotFoundError"))
          ELSE Handled(DelItem(store, string_id), now,
                       Response("delete", string_value, HTTP_204_NO_CONTENT, "none",
                                <<>>, EmptyDict, <<>>))

\* lines 239-243: the constraints the Query declarations put on the
\* parameters (ge=0; min_length=1, max_length=1).  FastAPI answers a request
\* that breaks one with 422 before the handler body runs.
QueryParamsValid(params) ==
    /\ \A k \in {"min_length", "max_length", "word_count"} \cap DOMAIN params :
           params[k] >= 0
    /\ "contains_character" \in DOMAIN params => Len(params["contains_character"]) = 1

\* a variant of lines 256-257 with the comparison reversed
MinAboveMaxReversed(params) ==
    /\ "min_length" \in DOMAIN params
    /\ "max_length" \in DOMAIN params
    /\ params["min_length"] < params["max_length"]

\* lines 256-257
MinAboveMax(params) ==
    /\ "min_length" \in DOMAIN params
    /\ "max_length" \in DOMAIN params
    /\ params["min_length"] > params["max_length"]

FilterKeys ==
    {"is_palindrome", "min_length", "max_length", "word_count", "contains_character"}

\* lines 314-325
Filtered(op, arg, store, filters) ==
    Response(op, arg, HTTP_200_OK, "none",
             apply_filters(DictValues(store), filters), filters, <<filters>>)

\* lines 263-274: the dict of the parameters that are not None
BuildFilters(params) == [k \in FilterKeys \cap DOMAIN params |-> params[k]]

\* GET /strings
list_strings_with_filters(store, now, params) ==
    IF ~QueryParamsValid(params)
      THEN Handled(store, now,
                   Failure("list", params, HTTP_422_UNPROCESSABLE_ENTITY, "ValidationError"))
    ELSE IF MinAboveMax(params)
      THEN Handled(store, now,
                   Failure("list", params, HTTP_400_BAD_REQUEST, "ConflictError"))
    ELSE Handled(store, now, Filtered("list", params, store, BuildFilters(params)))

\* lines 302-312: the except branch picks the status by the message
ParseFailure(query, message) ==
    IF Contains(lower(message), CONFLICTING)
      THEN Failure("nl", query, HTTP_422_UNPROCESSABLE_ENTITY, "ConflictError")
      ELSE Failure("nl", query, HTTP_400_BAD_REQUEST, "NoMatchError")

NaturalLanguage(store, query, parsed) ==
    IF ~parsed.ok THEN ParseFailure(query, parsed.message)
    ELSE Filtered("nl", query, store, parsed.filters)

\* GET /strings/filter-by-natural-language
filter_by_natural_language(store, now, query) ==
    Handled(store, now, NaturalLanguage(store, query, parse_natural_language_query(query)))

(***************************************************************************)
(* The requests the clients send                                           *)
(***************************************************************************)
\* an optional input is <<>> (left out) or <<x>>
Opt(S) == {<<>>} \cup { <<x>> : x \in S }

Params(p, a, b, w, c) ==
    Field("is_palindrome", p) @@ Field("min_length", a) @@ Field("max_length", b)
        @@ Field("word_count", w) @@ Field("contains_character", c)

\* the query strings of GET /strings
QueryParams ==
    { Params(p, a, b, w, c) :
        p \in Opt(BOOLEAN), a \in Opt(-1..MaxBound), b \in Opt(-1..MaxBound),
        w \in Opt({1}), c \in Opt({ <<>>, <<"a">> }) }

RECURSIVE Join(_)
Join(fs) ==
    IF fs = <<>> THEN <<>>
    ELSE IF Len(fs) = 1 THEN fs[1]
    ELSE fs[1] \o <<" ">> \o Join(Tail(fs))

BANANA == <<"b","a","n","a","n","a">>
PALINDROMIC == <<"P","a","l","i","n","d","r","o","m","i","c">>
Single_Word == <<"S","i","n","g","l","e"," ","W","o","r","d">>
CONTAINING_B == <<"c","o","n","t","a","i","n","i","n","g"," ","b">>
CONTAINS_THE_LETTER_Z == <<"c","o","n","t","a","i","n","s"," ","t","h","e"," ","l","e","t","t","e","r"," ","'","z","'">>
CONTAIN_THE == <<"c","o","n","t","a","i","n"," ","t","h","e">>
CHARACTERS == <<" ","c","h","a","r","a","c","t","e","r","s">>

LongerThan(n) == LONGER_THAN \o Decimal(n)
ShorterThan(n) == SHORTER_THAN \o Decimal(n)
AtLeast(n) == AT_LEAST \o Decimal(n) \o CHARACTERS
AtMost(n) == AT_MOST \o Decimal(n) \o CHARACTER
Exactly(n) == EXACTLY \o Decimal(n) \o CHARACTERS

\* the phrases of GET /strings/filter-by-natural-language
QueryPhrases ==
    { <<>>, BANANA, PALINDROMIC, ShorterThan(0), ShorterThan(3), AtLeast(2),
      Join(<<Single_Word, PALINDROMIC>>), Join(<<LongerThan(10), ShorterThan(2)>>),
      Join(<<LongerThan(10), Exactly(2)>>), Join(<<CONTAINING_B, AtMost(2)>>),
      Join(<<CONTAIN_THE, FIRST_VOWEL>>) }

(***************************************************************************)
(* Spec: the five operations, one request at a time                        *)
(***************************************************************************)
Init ==
    /\ string_store = <<>>
    /\ clock = 0
    /\ resp = Idle
    /\ live = EmptyDict
    /\ inflight = <<>>
    /\ call = <<>>

\* the requests are served while the model's bounds last
WithinBounds(r) == Len(r.store) <= MaxStore /\ r.clock <= MaxClock

Serve(r) ==
    /\ WithinBounds(r)
    /\ string_store' = r.store
    /\ clock' = r.clock
    /\ resp' = r.resp
    /\ UNCHANGED <<inflight, call>>

CreateString ==
    /\ resp = Idle
    /\ \E value \in Values :
          LET r == create_string(string_store, clock, value)
          IN  /\ Serve(r)
              /\ live' = IF r.resp.status = HTTP_201_CREATED
                           THEN Put(live, value, r.resp.data[1])
                           ELSE live

GetString ==
    /\ resp = Idle
    /\ \E string_value \in Values : Serve(get_string(string_store, clock, string_value))
    /\ UNCHANGED live

DeleteString ==
    /\ resp = Idle
    /\ \E string_value \in Values :
          LET r == delete_string(string_store, clock, string_value)
          IN  /\ Serve(r)
              /\ live' = IF r.resp.status = HTTP_204_NO_CONTENT
                           THEN [v \in DOMAIN live \ {string_value} |-> live[v]]
                           ELSE live

ListStrings ==
    /\ resp = Idle
    /\ \E params \in QueryParams :
          Serve(list_strings_with_filters(string_store, clock, params))
    /\ UNCHANGED live

FilterByNaturalLanguage ==
    /\ resp = Idle
    /\ \E query \in QueryPhrases :
          Serve(filter_by_natural_language(string_store, clock, query))
    /\ UNCHANGED live

\* the response reaches the client
Deliver ==
    /\ resp # Idle
    /\ resp' = Idle
    /\ UNCHANGED <<string_store, clock, live, inflight, call>>

Next ==
    \/ CreateString
    \/ GetString
    \/ DeleteString
    \/ ListStrings
    \/ FilterByNaturalLanguage
    \/ Deliver

Spec == Init /\ [][Next]_vars
(***************************************************************************)
(* SpecFilter: apply_filters on the records and the filters it may be      *)
(* handed                                                                  *)
(***************************************************************************)
\* the record create_string stores for a value
RecordOf(value, created_at) ==
    StringData(sha256_hexdigest(value), value, analyze_string(value), created_at)

\* list(string_store.values()) of the stores of up to MaxRecs records: the
\* values differ, the timestamps follow the insertion order
RecordLists ==
    UNION { { [i \in 1..n |-> RecordOf(vs[i], i - 1)] :
                vs \in { ws \in [1..n -> FilterValues] :
                           \A i, j \in 1..n : i # j => ws[i] # ws[j] } } :
            n \in 0..MaxRecs }

FilterSpecs ==
    { Params(p, a, b, w, c) :
        p \in Opt(BOOLEAN), a \in Opt(0..MaxParam), b \in Opt(0..MaxParam),
        w \in Opt(0..MaxParam), c \in Opt({ <<>>, <<"a">>, <<"b">> }) }

Quiet ==
    /\ string_store = <<>>
    /\ clock = 0
    /\ resp = Idle
    /\ live = EmptyDict
    /\ inflight = <<>>

InitFilter ==
    /\ Quiet
    /\ call \in { [ fn |-> "apply_filters", strings |-> ss, filters |-> f,
                    done |-> FALSE, result |-> <<>> ] :
                  ss \in RecordLists, f \in FilterSpecs }

ApplyFilters ==
    /\ ~call.done
    /\ call' = [call EXCEPT !.done = TRUE,
                            !.result = apply_filters(call.strings, call.filters)]
    /\ UNCHANGED <<string_store, clock, resp, live, inflight>>

SpecFilter == InitFilter /\ [][ApplyFilters]_vars

(***************************************************************************)
(* SpecParse: parse_natural_language_query on phrases made of fragments    *)
(***************************************************************************)
Nums == {0, 2, 10}

Fragments ==
    { PALINDROMIC, Single_Word, TWO_WORD, THREE_WORD, CONTAINING_B,
      CONTAINS_THE_LETTER_Z, CONTAIN_THE, FIRST_VOWEL, BANANA }
    \cup { LongerThan(n) : n \in Nums } \cup { ShorterThan(n) : n \in Nums }
    \cup { AtLeast(2), AtMost(2) } \cup { Exactly(n) : n \in Nums }

Phrases == { Join(fs) : fs \in UNION { [1..n -> Fragments] : n \in 0..MaxFragments } }

InitParse ==
    /\ Quiet
    /\ call \in { [ fn |-> "parse", query |-> q, done |-> FALSE,
                    result |-> [ok |-> FALSE, filters |-> EmptyDict, message |-> <<>>] ] :
                  q \in Phrases }

Parse ==
    /\ ~call.done
    /\ call' = [call EXCEPT !.done = TRUE,
                            !.result = parse_natural_language_query(call.query)]
    /\ UNCHANGED <<string_store, clock, resp, live, inflight>>

SpecParse == InitParse /\ [][Parse]_vars

(***************************************************************************)
(* SpecConc: two clients whose requests are in flight together.  A handler *)
(* is a coroutine without an await, so the event loop runs each handler    *)
(* from its first line to its return before it runs another; what          *)
(* interleaves is the arrival, the handling and the answer of the          *)
(* requests.                                                               *)
(***************************************************************************)
Clients == {"c1", "c2"}

RaceValues == { <<"A","a">>, <<"a","b">> }

NoRequest == [pc |-> "idle", op |-> "none", value |-> <<>>, status |-> 0, raced |-> FALSE]

InitConc ==
    /\ string_store = <<>>
    /\ clock = 0
    /\ resp = Idle
    /\ live = EmptyDict
    /\ call = <<>>
    /\ inflight = [c \in Clients |-> NoRequest]

\* d waits to create value
WaitsToCreate(d, value) ==
    /\ inflight[d].pc = "pending"
    /\ inflight[d].op = "create"
    /\ inflight[d].value = value

\* a request arrives; raced marks two creates of one value that wait together
\* while the store does not hold it
Arrive ==
    \E c \in Clients, op \in {"create", "delete"}, value \in RaceValues :
        /\ inflight[c].pc = "idle"
        /\ LET races == /\ op = "create"
                        /\ ~HasKey(string_store, sha256_hexdigest(value))
                        /\ \E d \in Clients \ {c} : WaitsToCreate(d, value)
           IN  inflight' =
                 [d \in Clients |->
                    IF d = c
                      THEN [pc |-> "pending", op |-> op, value |-> value,
                            status |-> 0, raced |-> races]
                    ELSE IF races /\ WaitsToCreate(d, value)
                      THEN [inflight[d] EXCEPT !.raced = TRUE]
                    ELSE inflight[d]]
        /\ UNCHANGED <<string_store, clock, resp, live, call>>

Run(op, store, now, value) ==
    IF op = "create" THEN create_string(store, now, value)
    ELSE delete_string(store, now, value)

Handle ==
    \E c \in Clients :
        /\ inflight[c].pc = "pending"
        /\ LET r == Run(inflight[c].op, string_store, clock, inflight[c].value)
           IN  /\ WithinBounds(r)
               /\ string_store' = r.store
               /\ clock' = r.clock
               /\ inflight' = [inflight EXCEPT ![c].pc = "done",
                                               ![c].status = r.resp.status]
        /\ UNCHANGED <<resp, live, call>>

Respond ==
    \E c \in Clients :
        /\ inflight[c].pc = "done"
        /\ inflight' = [inflight EXCEPT ![c] = NoRequest]
        /\ UNCHANGED <<string_store, clock, resp, live, call>>

NextConc == Arrive \/ Handle \/ Respond

SpecConc == InitConc /\ [][NextConc]_vars
(***************************************************************************)
(* The properties                                                          *)
(***************************************************************************)
\* the entry k of dict f is the optional value o: absent for <<>>, x for <<x>>
Is(f, k, o) == IF o = <<>> THEN k \notin DOMAIN f ELSE k \in DOMAIN f /\ f[k] = o[1]

\* both bounds are set and the lower one is above the upper one
BoundsViolated(f) ==
    /\ "min_length" \in DOMAIN f
    /\ "max_length" \in DOMAIN f
    /\ f["min_length"] > f["max_length"]

\* the record s passes every predicate that the specification f holds
Satisfies(s, f) ==
    /\ "is_palindrome" \in DOMAIN f =>
           (lower(s.value) = reversed(lower(s.value))) = f["is_palindrome"]
    /\ "min_length" \in DOMAIN f => Len(s.value) >= f["min_length"]
    /\ "max_length" \in DOMAIN f => Len(s.value) <= f["max_length"]
    /\ "word_count" \in DOMAIN f => s.properties.word_count = f["word_count"]
    /\ "contains_character" \in DOMAIN f =>
           Contains(s.value, f["contains_character"])

\* C1: two creates of one value that wait together on a store without it end,
\* under every interleaving, with one 201 and one 409 (DuplicateError), and the
\* store then holds exactly one record under that hash.
C1_OneCreateWins ==
    \A c, d \in Clients :
        /\ c # d
        /\ inflight[c].pc = "done" /\ inflight[d].pc = "done"
        /\ inflight[c].op = "create" /\ inflight[d].op = "create"
        /\ inflight[c].value = inflight[d].value
        /\ inflight[c].raced /\ inflight[d].raced
        => /\ {inflight[c].status, inflight[d].status}
                = {HTTP_201_CREATED, HTTP_409_CONFLICT}
           /\ Cardinality({ i \in 1..Len(string_store) :
                  string_store[i].key = sha256_hexdigest(inflight[c].value) }) = 1

C1_Witness ==
    /\ \A c \in Clients :
          inflight[c].pc = "done" /\ inflight[c].op = "create" /\ inflight[c].raced
    /\ \E c \in Clients : inflight[c].status = HTTP_409_CONFLICT

\* C2: apply_filters returns exactly the records that satisfy every predicate
\* present in the filters at once, in the order of the input; a predicate that
\* is absent constrains nothing.
C2_FilterAnd ==
    call.done =>
        call.result = SelectSeq(call.strings, LAMBDA s : Satisfies(s, call.filters))

C2_Witness ==
    /\ call.done
    /\ Cardinality(DOMAIN call.filters) >= 2
    /\ Len(call.result) = 1
    /\ Len(call.strings) = 2
    /\ call.result[1] = call.strings[2]

\* what the rules of the interpreter leave in each field, by precedence: the
\* rule that is evaluated last among those that match
ExpectedMin(q) ==
    IF SearchNumber(q, EXACTLY, CHARACTER) # <<>> THEN SearchNumber(q, EXACTLY, CHARACTER)
    ELSE IF SearchNumber(q, AT_LEAST, CHARACTER) # <<>>
      THEN SearchNumber(q, AT_LEAST, CHARACTER)
    ELSE IF SearchNumber(q, LONGER_THAN, <<>>) # <<>>
      THEN << SearchNumber(q, LONGER_THAN, <<>>)[1] + 1 >>
    ELSE <<>>

ExpectedMax(q) ==
    IF SearchNumber(q, EXACTLY, CHARACTER) # <<>> THEN SearchNumber(q, EXACTLY, CHARACTER)
    ELSE IF SearchNumber(q, AT_MOST, CHARACTER) # <<>>
      THEN SearchNumber(q, AT_MOST, CHARACTER)
    ELSE IF SearchNumber(q, SHORTER_THAN, <<>>) # <<>>
      THEN << SearchNumber(q, SHORTER_THAN, <<>>)[1] - 1 >>
    ELSE <<>>

ExpectedChar(q) ==
    IF Contains(q, FIRST_VOWEL) THEN << <<"a">> >>
    ELSE IF SearchContains(q) # <<>> THEN << SearchContains(q) >>
    ELSE <<>>

\* one of the five rules matches q
SomeRule(q) ==
    \/ Contains(q, PALINDROM)
    \/ WordCountMatch(q) # <<>>
    \/ ExpectedMin(q) # <<>> \/ ExpectedMax(q) # <<>>
    \/ SearchContains(q) # <<>>
    \/ Contains(q, FIRST_VOWEL)

BoundsClash(q) ==
    /\ ExpectedMin(q) # <<>>
    /\ ExpectedMax(q) # <<>>
    /\ ExpectedMin(q)[1] > ExpectedMax(q)[1]

\* C3: the interpreter fails with NoMatchError exactly when none of the five
\* rules sets a field, with ConflictError exactly when both bounds end up set
\* with min_length > max_length, and otherwise returns a specification with at
\* least one predicate.
C3_ParseOutcome ==
    call.done =>
        /\ call.result.message = NoMatchMessage <=> ~SomeRule(lower(call.query))
        /\ call.result.message = ConflictMessage <=> BoundsClash(lower(call.query))
        /\ call.result.ok <=> SomeRule(lower(call.query)) /\ ~BoundsClash(lower(call.query))
        /\ call.result.ok => DOMAIN call.result.filters # {}

C3_Witness ==
    /\ call.done
    /\ call.result.message = ConflictMessage
    /\ Contains(lower(call.query), SHORTER_THAN)

\* C4: on both entry points a filter handed to apply_filters never has
\* min_length > max_length, and a request whose bounds are so ordered ends in
\* an error without the engine being called and without records.
C4_BoundsOrdered ==
    /\ \A i \in 1..Len(resp.engine) : ~BoundsViolated(resp.engine[i])
    /\ resp.op = "list" /\ BoundsViolated(resp.arg) =>
           resp.error # "none" /\ resp.engine = <<>> /\ resp.data = <<>>
    /\ resp.op = "nl" /\ BoundsClash(lower(resp.arg)) =>
           resp.error # "none" /\ resp.engine = <<>> /\ resp.data = <<>>

C4_Witness ==
    /\ resp.op = "list"
    /\ BoundsViolated(resp.arg)
    /\ resp.error = "ConflictError"
    /\ Len(string_store) = 2

\* C5: a ConflictError, of the structured query as of the natural-language
\* query, is reported as 422 (unprocessable), never in the category of a
\* NoMatchError or ValidationError (400), a DuplicateError (409) or a
\* NotFoundError (404).
C5_ConflictUnprocessable ==
    resp.error = "ConflictError" =>
        /\ resp.status = HTTP_422_UNPROCESSABLE_ENTITY
        /\ resp.status \notin {HTTP_400_BAD_REQUEST, HTTP_409_CONFLICT, HTTP_404_NOT_FOUND}

\* C6: the store changes only by a successful create, which appends the new
\* record and touches no other, and by a successful delete, which removes that
\* record alone; every other request, failing or reading, leaves it as it was.
C6_Frame ==
    [][ IF resp'.op = "create" /\ resp'.status = HTTP_201_CREATED
          THEN /\ \A i \in 1..Len(string_store) : string_store[i].data.value # resp'.arg
               /\ string_store' = Append(string_store,
                      [key |-> resp'.data[1].id, data |-> resp'.data[1]])
               /\ resp'.data[1].value = resp'.arg
        ELSE IF resp'.op = "delete" /\ resp'.status = HTTP_204_NO_CONTENT
          THEN /\ \E i \in 1..Len(string_store) : string_store[i].data.value = resp'.arg
               /\ string_store' =
                      SelectSeq(string_store, LAMBDA e : e.data.value # resp'.arg)
        ELSE string_store' = string_store ]_vars

C6_Witness ==
    /\ resp.op = "create"
    /\ resp.error = "DuplicateError"
    /\ Len(string_store) = 2
    /\ string_store[1].data.value = resp.arg
    /\ clock > string_store[1].data.created_at + 1

\* C7: from a successful create(v) until the next successful delete(v), get(v)
\* returns the record that create returned and create(v) fails with
\* DuplicateError; from then until the next successful create(v), get(v) and
\* delete(v) fail with NotFoundError and create(v) succeeds.
C7_Lifecycle ==
    [][ resp'.op \in {"create", "get", "delete"} =>
          IF resp'.arg \in DOMAIN live
            THEN /\ resp'.op = "create" => resp'.error = "DuplicateError"
                 /\ resp'.op = "get" =>
                        resp'.status = HTTP_200_OK /\ resp'.data = <<live[resp'.arg]>>
                 /\ resp'.op = "delete" => resp'.status = HTTP_204_NO_CONTENT
            ELSE /\ resp'.op = "create" => resp'.status = HTTP_201_CREATED
                 /\ resp'.op = "get" => resp'.error = "NotFoundError"
                 /\ resp'.op = "delete" => resp'.error = "NotFoundError" ]_vars

C7_Witness ==
    /\ resp.op = "get"
    /\ resp.status = HTTP_200_OK
    /\ resp.data[1].created_at = 0
    /\ clock >= 2
    /\ Len(string_store) = 1

\* every field of the specification returned holds what the rule evaluated
\* last among the matching ones wrote, and is absent when none matched
FieldsByPrecedence ==
    call.result.ok =>
        /\ Is(call.result.filters, "is_palindrome", PalindromeMatch(lower(call.query)))
        /\ Is(call.result.filters, "word_count", WordCountMatch(lower(call.query)))
        /\ Is(call.result.filters, "min_length", ExpectedMin(lower(call.query)))
        /\ Is(call.result.filters, "max_length", ExpectedMax(lower(call.query)))
        /\ Is(call.result.filters, "contains_character", ExpectedChar(lower(call.query)))

\* C8, as amended: a field that several matching rules write holds the value of
\* the rule evaluated last (longer-than, shorter-than, at-least, at-most,
\* exactly; containment, then first-vowel), the fields of different rules are
\* set together, and a phrase in which "exactly N character(s)" matches yields
\* min_length = max_length = N for the N of the leftmost such match, never a
\* ConflictError.
C8_LaterRuleWins ==
    call.done =>
        /\ FieldsByPrecedence
        /\ SearchNumber(lower(call.query), EXACTLY, CHARACTER) # <<>> =>
               /\ call.result.ok
               /\ Is(call.result.filters, "min_length",
                     SearchNumber(lower(call.query), EXACTLY, CHARACTER))
               /\ Is(call.result.filters, "max_length",
                     SearchNumber(lower(call.query), EXACTLY, CHARACTER))

\* C8, as stated: ... a phrase containing "exactly N characters" always yields
\* min_length = max_length = N, whatever other length phrases it contains.
C8_ExactlyAnyOccurrence ==
    call.done =>
        /\ FieldsByPrecedence
        /\ \A n \in Nums :
               Contains(lower(call.query), Exactly(n)) =>
                   /\ call.result.ok
                   /\ Is(call.result.filters, "min_length", <<n>>)
                   /\ Is(call.result.filters, "max_length", <<n>>)

C8_Witness ==
    /\ call.done
    /\ call.result.ok
    /\ SearchNumber(lower(call.query), EXACTLY, CHARACTER) = <<2>>
    /\ SearchNumber(lower(call.query), LONGER_THAN, <<>>) = <<10>>
    /\ call.result.filters["min_length"] = 2

\* C9: whenever the natural-language query answers with a specification S, the
\* structured query given the parameters of S answers, on the same store, with
\* S and the same records in the same order.
C9_SameAsStructured ==
    resp.op = "nl" /\ resp.status = HTTP_200_OK =>
        /\ resp.filters = parse_natural_language_query(resp.arg).filters
        /\ list_strings_with_filters(string_store, clock, resp.filters).resp.status
               = HTTP_200_OK
        /\ list_strings_with_filters(string_store, clock, resp.filters).resp.data
               = resp.data
        /\ list_strings_with_filters(string_store, clock, resp.filters).resp.filters
               = resp.filters

\* C10: every key of the store is the id of its record and the content hash of
\* the record's value, the record's properties are those of its value, and no
\* two records hold the same value or the same id.
C10_HashIdentity ==
    /\ \A i \in 1..Len(string_store) :
          /\ string_store[i].key = string_store[i].data.id
          /\ string_store[i].key = sha256_hexdigest(string_store[i].data.value)
          /\ string_store[i].data.properties.sha256_hash = string_store[i].key
          /\ string_store[i].data.properties.length = Len(string_store[i].data.value)
          /\ string_store[i].data.properties = analyze_string(string_store[i].data.value)
    /\ \A i, j \in 1..Len(string_store) :
          i # j => /\ string_store[i].data.value # string_store[j].data.value
                   /\ string_store[i].data.id # string_store[j].data.id
                   /\ string_store[i].key # string_store[j].key

C10_Witness ==
    /\ Len(string_store) = 2
    /\ lower(string_store[1].data.value) = <<"a","a">>
    /\ string_store[2].data.properties.word_count = 2
====
